---- MODULE Spec2Model ----
(***************************************************************************)
(* Model of converter_arquivos.py: the batch driver of PDFtoWordGUI        *)
(* (_start_conversion, _convert_all_pdfs, _convert_single), the conversion *)
(* engine convert_pdf_to_docx and the two extractors, extract_tables and   *)
(* extract_images, over an explicit file system (destination folders,      *)
(* temporary directories, temporary image files, output files).            *)
(*                                                                         *)
(* Every click on the convert button spawns a thread; a thread is modelled *)
(* as a record th[w] holding the locals of the three nested calls and its  *)
(* position pc.  Steps are split wherever another thread can observe or    *)
(* change what the step reads: the Tk variables, the clock and the file    *)
(* system.                                                                 *)
(***************************************************************************)
EXTENDS Integers, Sequences, FiniteSets, TLC

VARIABLES
    srcFolder,     \* the files in the source folder (src_dir)
    dst_dir,       \* Tk variable self.dst_dir
    include_imgs,  \* Tk variable self.include_imgs
    status,        \* Tk variable self.status
    prog,          \* the progress bar self.prog: its value and maximum
    clock,         \* datetime.now() truncated to the second
    folders,       \* destination folders that exist on disk
    tmpDirs,       \* temporary directories that exist on disk
    tmpFiles,      \* files inside temporary directories
    outFiles,      \* what is stored at each docx path
    th,            \* the worker threads
    edits,         \* how many times the user changed dst_dir or include_imgs
    page_tables,   \* extract_tables on its own: the page's detected tables
    tdoc,          \* extract_tables on its own: the output document
    tpc            \* extract_tables on its own: position

vars == <<srcFolder, dst_dir, include_imgs, status, prog, clock, folders,
          tmpDirs, tmpFiles, outFiles, th, edits, page_tables, tdoc, tpc>>

-----------------------------------------------------------------------------
(* Bounds *)

MaxWorkers == 2     \* threads that can be spawned
MaxClock == 1       \* clock seconds 0..MaxClock
MaxFiles == 2       \* PDFs in the source folder
MaxEdits == 1       \* changes of the destination field or the check box
MaxRows == 3        \* rows of a table given to extract_tables on its own
MaxCols == 2        \* cells in one such row

Workers == 1..MaxWorkers

-----------------------------------------------------------------------------
(* Text.  A string is a sequence of one-character strings; None is a       *)
(* value that is no text.                                                  *)

None == <<"None">>

RECURSIVE LStrip(_)
LStrip(s) == IF s = <<>> THEN s
             ELSE IF Head(s) = " " THEN LStrip(Tail(s)) ELSE s

RECURSIVE RStrip(_)
RStrip(s) == IF s = <<>> THEN s
             ELSE IF s[Len(s)] = " " THEN RStrip(SubSeq(s, 1, Len(s) - 1)) ELSE s

\* str.strip()
Strip(s) == RStrip(LStrip(s))

\* (cell or "")
CellOrEmpty(cell) == IF cell = None THEN <<>> ELSE cell

-----------------------------------------------------------------------------
(* extract_tables *)

\* doc_table.cell(r, c).text = ... for every cell of every row, in order.
\* python-docx addresses the cell as _cells[c + r * column_count]; an index
\* past the end of the grid raises IndexError.  r, c are 1-based here.
RECURSIVE FillCells(_, _, _, _, _)
FillCells(grid, data, r, c, cols) ==
    IF r > Len(data) THEN [grid |-> grid, exc |-> "none"]
    ELSE IF c > Len(data[r]) THEN FillCells(grid, data, r + 1, 1, cols)
    ELSE LET i == (c - 1) + (r - 1) * cols + 1 IN
         IF i > Len(grid) THEN [grid |-> grid, exc |-> "IndexError"]
         ELSE FillCells([grid EXCEPT ![i] = Strip(CellOrEmpty(data[r][c]))],
                        data, r, c + 1, cols)

\* rows, cols = len(data), len(data[0])
TableCols(data) == Len(data[1])

\* the body of the loop over tables.tables for one table with data
CopyTable(data) ==
    LET rows == Len(data)
        cols == TableCols(data)
        f == FillCells([i \in 1..(rows * cols) |-> <<>>], data, 1, 1, cols)
    IN [block |-> [type |-> "table", rows |-> rows, cols |-> cols, cells |-> f.grid],
        exc |-> f.exc]

RECURSIVE CopyTables(_, _)
CopyTables(tables, doc) ==
    IF tables = <<>> THEN [doc |-> doc, exc |-> "none"]
    ELSE IF Head(tables) = <<>> THEN CopyTables(Tail(tables), doc)
    ELSE LET t == CopyTable(Head(tables)) IN
         IF t.exc # "none" THEN [doc |-> Append(doc, t.block), exc |-> t.exc]
         ELSE CopyTables(Tail(tables), Append(doc, t.block))

\* pt = [supported, tables]: supported = FALSE is a PyMuPDF without
\* find_tables (AttributeError).
ExtractTables(pt, doc) ==
    IF ~pt.supported \/ pt.tables = <<>> THEN [doc |-> doc, exc |-> "none"]
    ELSE CopyTables(pt.tables, doc)

-----------------------------------------------------------------------------
(* The files.  A file name is [stem, ext]; stems are numbered in name      *)
(* order, so that sorted() on paths of one folder orders them by stem.     *)

T(c) == <<c>>
Hi == <<" ", "H", "i", " ">>

Pdf(n) == [stem |-> n, ext |-> "pdf"]
NotesTxt == [stem |-> 0, ext |-> "txt"]

\* What fitz.open finds in the PDF with stem n.  An image is [xref, kind]:
\* kind "ok", "bad_insert" (doc.add_picture cannot decode its bytes) or
\* "bad_extract" (extract_image raises on its stream).
PdfContent(n) ==
    CASE n = 1 ->
           [valid |-> TRUE,
            pages |-> << [text |-> Hi,
                          tables |-> [supported |-> TRUE,
                                      tables |-> << << <<T("a"), None>>, <<T("b"), T(" ")>> >> >>],
                          images |-> << [xref |-> 7, kind |-> "bad_insert"],
                                        [xref |-> 8, kind |-> "ok"] >>] >>]
      [] n = 2 -> [valid |-> FALSE, pages |-> <<>>]
      [] n = 3 ->
           [valid |-> TRUE,
            pages |-> << [text |-> T(" "),
                          tables |-> [supported |-> FALSE, tables |-> <<>>],
                          images |-> << [xref |-> 5, kind |-> "bad_extract"],
                                        [xref |-> 6, kind |-> "ok"] >>] >>]
      [] OTHER ->
           [valid |-> TRUE,
            pages |-> << [text |-> T("x"),
                          tables |-> [supported |-> TRUE,
                                      tables |-> << << <<T("a")>>, <<T("b"), T("c")>> >> >>],
                          images |-> <<>>] >>]

AllPdfs == {Pdf(n) : n \in 1..4}

\* the folders the destination field can name; only the default one is
\* created by __init__
DefaultDst == "docs_word"
OtherDst == "typed"
DstChoices == {DefaultDst, OtherDst}

-----------------------------------------------------------------------------
(* _convert_all_pdfs: listing *)

\* Path(src).glob("*.pdf")
Glob(folder) == {f \in folder : f.ext = "pdf"}

Least(S) == CHOOSE f \in S : \A g \in S : f.stem <= g.stem

\* sorted(...)
RECURSIVE Sorted(_)
Sorted(S) == IF S = {} THEN <<>>
             ELSE <<Least(S)>> \o Sorted(S \ {Least(S)})

-----------------------------------------------------------------------------
(* Threads *)

NoDir == [parent |-> "none", ts |-> -1]
NoPath == [dir |-> "none", stem |-> -1]

\* the locals of one call of convert_pdf_to_docx before it starts; created,
\* wrote, closes and tmp_left record what the call did: whether mkdir made
\* the directory, what doc.save left at docx_path, how often pdf.close()
\* ran, and whether the directory or a file this thread wrote into it was
\* still there when the finally clause ended
NoCall == [docx_path |-> NoPath, include_images |-> FALSE, pdf |-> "none",
           closes |-> 0, temp_dir |-> NoDir, created |-> FALSE, doc |-> <<>>,
           pg |-> 0, im |-> 0, exc |-> "none", wrote |-> "nothing",
           tmp_left |-> FALSE]

\* calls: the calls of convert_pdf_to_docx the thread made, with how each
\* ended; reports: the message boxes and the final status line it showed;
\* clickDst, clickImgs: the two Tk variables as they were when the button
\* was clicked, and startDst, startImgs: as they were when the thread
\* entered the loop of _convert_all_pdfs; timer: the callback of line 189 is
\* pending
Unstarted == [pc |-> "unstarted", pdf_paths |-> <<>>, idx |-> 0,
              clickDst |-> "none", clickImgs |-> FALSE,
              startDst |-> "none", startImgs |-> FALSE,
              calls |-> <<>>, reports |-> <<>>, timer |-> FALSE, c |-> NoCall]

\* ttk.Progressbar's maximum before line 179 configures it
ProgDefaultMax == 100

Folders == {S \cup {NotesTxt} : S \in {X \in SUBSET AllPdfs : Cardinality(X) <= MaxFiles}}

Init ==
    /\ srcFolder \in Folders
    /\ dst_dir = DefaultDst
    /\ include_imgs = TRUE
    /\ status = [kind |-> "ready"]
    /\ prog = [value |-> 0, maximum |-> ProgDefaultMax]
    /\ clock = 0
    /\ folders = {DefaultDst}
    /\ tmpDirs = {}
    /\ tmpFiles = {}
    /\ outFiles = [p \in DstChoices \X (1..4) |-> "absent"]
    /\ th = [w \in Workers |-> Unstarted]
    /\ edits = 0
    /\ page_tables = [supported |-> FALSE, tables |-> <<>>]
    /\ tdoc = <<>>
    /\ tpc = "off"

UNCHANGED_Tables == UNCHANGED <<page_tables, tdoc, tpc>>

-----------------------------------------------------------------------------
(* The interface thread *)

\* threads that are inside _convert_all_pdfs
Running == {w \in Workers : th[w].pc \notin {"unstarted", "done"}}

\* _start_conversion: threading.Thread(target=self._convert_all_pdfs).start()
StartConversion ==
    /\ \E w \in Workers :
         /\ th[w].pc = "unstarted"
         /\ \A v \in Workers : v < w => th[v].pc # "unstarted"
         /\ th' = [th EXCEPT ![w] = [@ EXCEPT !.pc = "glob",
                                               !.clickDst = dst_dir,
                                               !.clickImgs = include_imgs]]
    /\ UNCHANGED <<srcFolder, dst_dir, include_imgs, status, prog, clock, folders,
                   tmpDirs, tmpFiles, outFiles, edits>>
    /\ UNCHANGED_Tables

\* _choose_dst, or typing into the entry bound to self.dst_dir
SetDst ==
    /\ edits < MaxEdits
    /\ edits' = edits + 1
    /\ \E d \in DstChoices : d # dst_dir /\ dst_dir' = d
    /\ UNCHANGED <<srcFolder, include_imgs, status, prog, clock, folders,
                   tmpDirs, tmpFiles, outFiles, th>>
    /\ UNCHANGED_Tables

\* the check button bound to self.include_imgs
ToggleImages ==
    /\ edits < MaxEdits
    /\ edits' = edits + 1
    /\ include_imgs' = ~include_imgs
    /\ UNCHANGED <<srcFolder, dst_dir, status, prog, clock, folders,
                   tmpDirs, tmpFiles, outFiles, th>>
    /\ UNCHANGED_Tables

\* a second passes
Tick ==
    /\ clock < MaxClock
    /\ clock' = clock + 1
    /\ UNCHANGED <<srcFolder, dst_dir, include_imgs, status, prog, folders,
                   tmpDirs, tmpFiles, outFiles, th, edits>>
    /\ UNCHANGED_Tables

-----------------------------------------------------------------------------
(* _convert_all_pdfs and _convert_single *)

CurrentPdf(t) == t.pdf_paths[t.idx]

\* lines 172-180: list, sort, count; warn and return on an empty list
ConvertAllGlob(w) ==
    LET t == th[w]
        pdf_paths == Sorted(Glob(srcFolder))
        total == Len(pdf_paths)
    IN /\ t.pc = "glob"
       /\ IF total = 0
          THEN /\ th' = [th EXCEPT ![w] = [t EXCEPT !.pc = "done",
                              !.reports = Append(@, [kind |-> "warning"])]]
               /\ UNCHANGED <<status, prog>>
          ELSE /\ th' = [th EXCEPT ![w] = [t EXCEPT !.pc = "loop", !.idx = 1,
                                                    !.pdf_paths = pdf_paths,
                                                    !.startDst = dst_dir,
                                                    !.startImgs = include_imgs]]
               /\ status' = [kind |-> "converting", idx |-> 0, total |-> total]
               /\ prog' = [value |-> 0, maximum |-> total]
       /\ UNCHANGED <<srcFolder, dst_dir, include_imgs, clock, folders,
                      tmpDirs, tmpFiles, outFiles, edits>>
       /\ UNCHANGED_Tables

\* lines 182-184 and 192-198: the head of the loop, the status line, and
\* _convert_single reading the two Tk variables for this file
LoopNext(w) ==
    LET t == th[w]
        total == Len(t.pdf_paths)
    IN /\ t.pc = "loop"
       /\ t.idx <= total
       /\ status' = [kind |-> "file", name |-> CurrentPdf(t), idx |-> t.idx, total |-> total]
       /\ th' = [th EXCEPT ![w] = [t EXCEPT !.pc = "open",
                    !.c = [NoCall EXCEPT
                             !.docx_path = [dir |-> dst_dir, stem |-> CurrentPdf(t).stem],
                             !.include_images = include_imgs]]]
       /\ UNCHANGED <<srcFolder, dst_dir, include_imgs, prog, clock, folders,
                      tmpDirs, tmpFiles, outFiles, edits>>
       /\ UNCHANGED_Tables

\* lines 187-189: after the last file
LoopDone(w) ==
    LET t == th[w]
        total == Len(t.pdf_paths)
    IN /\ t.pc = "loop"
       /\ t.idx > total
       /\ status' = [kind |-> "done", total |-> total]
       /\ th' = [th EXCEPT ![w] = [t EXCEPT !.pc = "done", !.timer = TRUE,
                    !.reports = Append(@, [kind |-> "summary", total |-> total])]]
       /\ UNCHANGED <<srcFolder, dst_dir, include_imgs, prog, clock, folders,
                      tmpDirs, tmpFiles, outFiles, edits>>
       /\ UNCHANGED_Tables

\* line 189: the callback self.prog.after(2000, ...) scheduled
ProgReset(w) ==
    /\ th[w].timer
    /\ prog' = [prog EXCEPT !.value = 0]
    /\ th' = [th EXCEPT ![w].timer = FALSE]
    /\ UNCHANGED <<srcFolder, dst_dir, include_imgs, status, clock, folders,
                   tmpDirs, tmpFiles, outFiles, edits>>
    /\ UNCHANGED_Tables

\* the except clause of _convert_single: messagebox.showerror
Handler(t) ==
    IF t.c.exc # "none"
    THEN Append(t.reports, [kind |-> "error", name |-> CurrentPdf(t), cause |-> t.c.exc])
    ELSE t.reports

\* a thread that an exception escapes from ends
AfterCallPcUncaught(exc) == IF exc = "none" THEN "loop" ELSE "done"

\* lines 193-200: "except Exception" catches whatever convert_pdf_to_docx
\* raises, so _convert_single returns and the loop of line 182 goes on
AfterCallPc(exc) == "loop"

\* lines 199-200 and 185: convert_pdf_to_docx has returned or raised (pc
\* "ret"); _convert_single handles the exception, _convert_all_pdfs sets the
\* progress bar and goes to the next file
ConvertSingleReturn(w) ==
    LET t == th[w] IN
    /\ t.pc = "ret"
    /\ th' = [th EXCEPT ![w] =
                [t EXCEPT !.calls = Append(@, [name |-> CurrentPdf(t), exc |-> t.c.exc]),
                          !.reports = Handler(t),
                          !.idx = @ + 1,
                          !.pc = AfterCallPc(t.c.exc),
                          !.c = NoCall]]
    /\ prog' = [prog EXCEPT !.value = t.idx]
    /\ UNCHANGED <<srcFolder, dst_dir, include_imgs, status, clock, folders,
                   tmpDirs, tmpFiles, outFiles, edits>>
    /\ UNCHANGED_Tables

-----------------------------------------------------------------------------
(* convert_pdf_to_docx *)

Content(t) == PdfContent(CurrentPdf(t).stem)

\* line 222-223: pdf = fitz.open(pdf_path); doc = Document()
Open(w) ==
    LET t == th[w] IN
    /\ t.pc = "open"
    /\ th' = [th EXCEPT ![w] =
                IF Content(t).valid
                THEN [t EXCEPT !.pc = "mkdir", !.c.pdf = "open"]
                ELSE [t EXCEPT !.pc = "ret", !.c.exc = "OpenError"]]
    /\ UNCHANGED <<srcFolder, dst_dir, include_imgs, status, prog, clock, folders,
                   tmpDirs, tmpFiles, outFiles, edits>>
    /\ UNCHANGED_Tables

\* line 225: docx_path.with_name("_tmp_imgs_" + now to the second)
TempDirName(docx_path, now) == [parent |-> docx_path.dir, ts |-> now]

\* line 226: temp_dir.mkdir(exist_ok=True) has no parents=True: it raises
\* FileNotFoundError when the destination folder is missing.  This is before
\* the try statement, so the finally clause does not run.
MkTempDir(w) ==
    LET t == th[w]
        temp_dir == TempDirName(t.c.docx_path, clock)
    IN /\ t.pc = "mkdir"
       /\ IF temp_dir.parent \in folders
          THEN /\ tmpDirs' = tmpDirs \cup {temp_dir}
               /\ th' = [th EXCEPT ![w] = [t EXCEPT !.pc = "page", !.c.pg = 1,
                             !.c.temp_dir = temp_dir,
                             !.c.created = temp_dir \notin tmpDirs]]
          ELSE /\ th' = [th EXCEPT ![w] = [t EXCEPT !.pc = "ret",
                             !.c.temp_dir = temp_dir,
                             !.c.exc = "FileNotFoundError"]]
               /\ UNCHANGED tmpDirs
       /\ UNCHANGED <<srcFolder, dst_dir, include_imgs, status, prog, clock, folders,
                      tmpFiles, outFiles, edits>>
       /\ UNCHANGED_Tables

\* lines 230-232: the page's paragraph
AddText(doc, text) ==
    IF Strip(text) # <<>> THEN Append(doc, [type |-> "paragraph", text |-> Strip(text)])
    ELSE doc

\* lines 229-236: one page's text and tables
PageStep(w) ==
    LET t == th[w]
        pages == Content(t).pages
    IN /\ t.pc = "page"
       /\ t.c.pg <= Len(pages)
       /\ LET page == pages[t.c.pg]
              r == ExtractTables(page.tables, AddText(t.c.doc, page.text))
          IN th' = [th EXCEPT ![w] =
                IF r.exc # "none"
                THEN [t EXCEPT !.pc = "unlink", !.c.doc = r.doc, !.c.exc = r.exc]
                ELSE IF t.c.include_images /\ page.images # <<>>
                THEN [t EXCEPT !.pc = "img_write", !.c.doc = r.doc, !.c.im = 1]
                ELSE [t EXCEPT !.c.doc = r.doc, !.c.pg = @ + 1]]
       /\ UNCHANGED <<srcFolder, dst_dir, include_imgs, status, prog, clock, folders,
                      tmpDirs, tmpFiles, outFiles, edits>>
       /\ UNCHANGED_Tables

\* the file img_<xref>.png of a directory
SameFile(f, dir, xref) == f.dir = dir /\ f.name = xref

\* extract_images, lines 79-83: extract_image(xref) and write_bytes, both
\* outside the try statement of line 84
ImgWrite(w) ==
    LET t == th[w]
        img == Content(t).pages[t.c.pg].images[t.c.im]
    IN /\ t.pc = "img_write"
       /\ IF img.kind = "bad_extract"
          THEN /\ th' = [th EXCEPT ![w] = [t EXCEPT !.pc = "unlink",
                                                    !.c.exc = "ImageExtractError"]]
               /\ UNCHANGED tmpFiles
          ELSE IF t.c.temp_dir \notin tmpDirs
          THEN /\ th' = [th EXCEPT ![w] = [t EXCEPT !.pc = "unlink",
                                                    !.c.exc = "FileNotFoundError"]]
               /\ UNCHANGED tmpFiles
          ELSE /\ tmpFiles' = {f \in tmpFiles : ~SameFile(f, t.c.temp_dir, img.xref)}
                                \cup {[dir |-> t.c.temp_dir, name |-> img.xref,
                                       kind |-> img.kind, by |-> w]}
               /\ th' = [th EXCEPT ![w] = [t EXCEPT !.pc = "img_insert"]]
       /\ UNCHANGED <<srcFolder, dst_dir, include_imgs, status, prog, clock, folders,
                      tmpDirs, outFiles, edits>>
       /\ UNCHANGED_Tables

\* extract_images, lines 84-88: doc.add_picture reads the file; a failure
\* (the file is gone, or its bytes cannot be decoded) is swallowed
AddPicture(doc, files, dir, xref) ==
    IF \E f \in files : SameFile(f, dir, xref) /\ f.kind = "ok"
    THEN Append(doc, [type |-> "image", xref |-> xref])
    ELSE doc

ImgInsert(w) ==
    LET t == th[w]
        images == Content(t).pages[t.c.pg].images
        img == images[t.c.im]
        doc == AddPicture(t.c.doc, tmpFiles, t.c.temp_dir, img.xref)
    IN /\ t.pc = "img_insert"
       /\ th' = [th EXCEPT ![w] =
             IF t.c.im < Len(images)
             THEN [t EXCEPT !.pc = "img_write", !.c.doc = doc, !.c.im = @ + 1]
             ELSE [t EXCEPT !.pc = "page", !.c.doc = doc, !.c.im = 0, !.c.pg = @ + 1]]
       /\ UNCHANGED <<srcFolder, dst_dir, include_imgs, status, prog, clock, folders,
                      tmpDirs, tmpFiles, outFiles, edits>>
       /\ UNCHANGED_Tables

\* line 239: doc.save(docx_path) writes straight to the destination path
\* (no temporary file and rename).  It can succeed, raise before the file
\* is opened for writing ("denied"), or raise while the document is being
\* written ("partial": the file exists, truncated).
SaveOutcomes == {"ok", "denied", "partial"}

Written(o) == CASE o = "ok" -> "complete"
                [] o = "partial" -> "partial"
                [] OTHER -> "nothing"

Save(w) ==
    LET t == th[w]
        p == <<t.c.docx_path.dir, t.c.docx_path.stem>>
    IN /\ t.pc = "page"
       /\ t.c.pg > Len(Content(t).pages)
       /\ \E o \in SaveOutcomes :
            /\ outFiles' = IF o = "denied" THEN outFiles
                           ELSE [outFiles EXCEPT ![p] = Written(o)]
            /\ th' = [th EXCEPT ![w] = [t EXCEPT !.pc = "unlink",
                          !.c.exc = IF o = "ok" THEN "none" ELSE "WriteError",
                          !.c.wrote = Written(o)]]
       /\ UNCHANGED <<srcFolder, dst_dir, include_imgs, status, prog, clock, folders,
                      tmpDirs, tmpFiles, edits>>
       /\ UNCHANGED_Tables

\* lines 242-246: unlink every file temp_dir.glob("*") lists.  The files
\* are regular files this program wrote, and missing_ok=True covers a file
\* another thread removed first, so no unlink fails here.
CleanupUnlink(w) ==
    LET t == th[w] IN
    /\ t.pc = "unlink"
    /\ tmpFiles' = {f \in tmpFiles : f.dir # t.c.temp_dir}
    /\ th' = [th EXCEPT ![w] = [t EXCEPT !.pc = "rmdir"]]
    /\ UNCHANGED <<srcFolder, dst_dir, include_imgs, status, prog, clock, folders,
                   tmpDirs, outFiles, edits>>
    /\ UNCHANGED_Tables

\* lines 247-250: rmdir fails (OSError, swallowed) when the directory is
\* missing or not empty
Rmdir(dirs, files, dir) ==
    IF dir \in dirs /\ ~\E f \in files : f.dir = dir THEN dirs \ {dir} ELSE dirs

TmpLeft(dirs, files, dir, w) ==
    dir \in dirs \/ \E f \in files : f.dir = dir /\ f.by = w

\* lines 247-251: rmdir, pdf.close(), and the call returns or re-raises
CleanupRmdir(w) ==
    LET t == th[w] IN
    /\ t.pc = "rmdir"
    /\ tmpDirs' = Rmdir(tmpDirs, tmpFiles, t.c.temp_dir)
    /\ th' = [th EXCEPT ![w] = [t EXCEPT !.pc = "ret", !.c.pdf = "closed",
                                         !.c.closes = @ + 1,
                                         !.c.tmp_left = TmpLeft(tmpDirs', tmpFiles, t.c.temp_dir, w)]]
    /\ UNCHANGED <<srcFolder, dst_dir, include_imgs, status, prog, clock, folders,
                   tmpFiles, outFiles, edits>>
    /\ UNCHANGED_Tables

-----------------------------------------------------------------------------

Next ==
    \/ StartConversion
    \/ SetDst
    \/ ToggleImages
    \/ Tick
    \/ \E w \in Workers : ConvertAllGlob(w)
    \/ \E w \in Workers : LoopNext(w)
    \/ \E w \in Workers : LoopDone(w)
    \/ \E w \in Workers : ProgReset(w)
    \/ \E w \in Workers : ConvertSingleReturn(w)
    \/ \E w \in Workers : Open(w)
    \/ \E w \in Workers : MkTempDir(w)
    \/ \E w \in Workers : PageStep(w)
    \/ \E w \in Workers : ImgWrite(w)
    \/ \E w \in Workers : ImgInsert(w)
    \/ \E w \in Workers : Save(w)
    \/ \E w \in Workers : CleanupUnlink(w)
    \/ \E w \in Workers : CleanupRmdir(w)

Spec == Init /\ [][Next]_vars

-----------------------------------------------------------------------------
(* extract_tables on its own: one call on a page whose detected tables are *)
(* drawn from the tables of at most MaxRows rows of at most MaxCols cells. *)

CellValues == {None, <<>>, <<" ", "a", " ">>}

RowsUpTo(n) == UNION {[1..k -> CellValues] : k \in 1..n}

TablesUpTo(m, n) == UNION {[1..k -> RowsUpTo(n)] : k \in 0..m}

PageTables == [supported : BOOLEAN,
               tables : {<<>>} \cup {<<d>> : d \in TablesUpTo(MaxRows, MaxCols)}]

InitTables ==
    /\ srcFolder = {NotesTxt}
    /\ dst_dir = DefaultDst
    /\ include_imgs = TRUE
    /\ status = [kind |-> "ready"]
    /\ prog = [value |-> 0, maximum |-> ProgDefaultMax]
    /\ clock = 0
    /\ folders = {DefaultDst}
    /\ tmpDirs = {}
    /\ tmpFiles = {}
    /\ outFiles = [p \in DstChoices \X (1..4) |-> "absent"]
    /\ th = [w \in Workers |-> Unstarted]
    /\ edits = 0
    /\ page_tables \in PageTables
    /\ tdoc = <<>>
    /\ tpc = "ready"

\* extract_tables(page, doc), lines 51-69
ExtractTablesCall ==
    /\ tpc = "ready"
    /\ LET r == ExtractTables(page_tables, tdoc) IN
         /\ tdoc' = r.doc
         /\ tpc' = IF r.exc = "none" THEN "returned" ELSE r.exc
    /\ UNCHANGED <<srcFolder, dst_dir, include_imgs, status, prog, clock, folders,
                   tmpDirs, tmpFiles, outFiles, th, edits, page_tables>>

NextTables == ExtractTablesCall

SpecTables == InitTables /\ [][NextTables]_vars

-----------------------------------------------------------------------------
(* Properties *)

InCall(t) == t.pc \in {"open", "mkdir", "page", "img_write", "img_insert",
                       "unlink", "rmdir", "ret"}

\* the call holds a temporary directory
HoldsTempDir(t) == t.pc \in {"page", "img_write", "img_insert", "unlink", "rmdir"}

Range(q) == {q[i] : i \in 1..Len(q)}

\* C1: a call of convert_pdf_to_docx that created its temporary directory
\* has, when it returns or raises, left neither the directory nor a file it
\* wrote into it.
C1_TempDirGoneAtReturn ==
    \A w \in Workers :
        th[w].pc = "ret" /\ th[w].c.created => ~th[w].c.tmp_left

PdfsOf(folder) == {f \in folder : f.ext = "pdf"}

Failed(calls) == SelectSeq(calls, LAMBDA c : c.exc # "none")

ErrorsOf(reports) == SelectSeq(reports, LAMBDA r : r.kind = "error")

\* C2: in a batch, a failing conversion never aborts the batch.  The files
\* a thread has attempted are, in order, the first PDFs of the source
\* folder in name order, each once; the error boxes it has shown are, in
\* order, the failed attempts with their file name and cause; and a thread
\* that has ended has attempted every PDF of the folder and last reported
\* the summary with their count (or, when the folder has no PDF, only the
\* warning).
C2_BatchNeverAborted ==
    \A w \in Workers :
        LET t == th[w]
            n == Cardinality(PdfsOf(srcFolder))
        IN /\ \A i \in 1..Len(t.calls) :
                /\ t.calls[i].name \in PdfsOf(srcFolder)
                /\ Cardinality({f \in PdfsOf(srcFolder) : f.stem < t.calls[i].name.stem}) = i - 1
           /\ Len(ErrorsOf(t.reports)) = Len(Failed(t.calls))
           /\ \A i \in 1..Len(Failed(t.calls)) :
                /\ ErrorsOf(t.reports)[i].name = Failed(t.calls)[i].name
                /\ ErrorsOf(t.reports)[i].cause = Failed(t.calls)[i].exc
           /\ t.pc = "done" =>
                IF n = 0 THEN t.calls = <<>> /\ t.reports = <<[kind |-> "warning"]>>
                ELSE /\ Len(t.calls) = n
                     /\ t.reports[Len(t.reports)] = [kind |-> "summary", total |-> n]

\* C2, witness: a batch of two files has ended, the first file failed and
\* the second was converted after it
C2_Witness ==
    \E w \in Workers :
        /\ th[w].pc = "done"
        /\ Len(th[w].calls) = 2
        /\ th[w].calls[1].exc # "none"
        /\ th[w].calls[2].exc = "none"

\* C3: a call of convert_pdf_to_docx in which a step failed has written
\* nothing to docx_path; the document is written only after every page was
\* processed.
C3_NothingWrittenOnFailure ==
    \A w \in Workers :
        LET t == th[w] IN
        InCall(t) /\ t.c.wrote # "nothing" =>
            t.c.exc = "none" /\ t.c.pg > Len(Content(t).pages)

\* C4: at most one batch worker runs at any time.
C4_SingleWorker == Cardinality(Running) <= 1

\* C5: no two conversions in flight hold the same temporary directory.
C5_UniqueTempDir ==
    \A v, w \in Workers :
        v # w /\ HoldsTempDir(th[v]) /\ HoldsTempDir(th[w])
            => th[v].c.temp_dir # th[w].c.temp_dir

MaxOf(S) == CHOOSE m \in S : \A k \in S : k <= m

MaxRowLen(data) == MaxOf({Len(data[r]) : r \in 1..Len(data)})

\* the grid the table should become: MaxRowLen(data) columns, a missing
\* cell empty
PaddedGrid(data) ==
    LET cols == MaxRowLen(data) IN
    [type |-> "table", rows |-> Len(data), cols |-> cols,
     cells |-> [i \in 1..(Len(data) * cols) |->
                  LET r == ((i - 1) \div cols) + 1
                      c == ((i - 1) % cols) + 1
                  IN IF c <= Len(data[r]) THEN Strip(CellOrEmpty(data[r][c])) ELSE <<>>]]

\* C6: extract_tables copies a table with jagged rows without error as a
\* grid of as many columns as its longest row, missing cells empty.
C6_JaggedGridMaxColumns ==
    tpc \notin {"off", "ready"} /\ page_tables.supported /\ page_tables.tables # <<>>
      /\ page_tables.tables[1] # <<>>
        => tpc = "returned" /\ tdoc = <<PaddedGrid(page_tables.tables[1])>>

OkImages(page) == {page.images[i].xref : i \in {j \in 1..Len(page.images) : page.images[j].kind = "ok"}}

BadImages(page) == {i \in 1..Len(page.images) : page.images[i].kind # "ok"}

\* C7: a conversion with images of a file whose page has one corrupted
\* image, once it has entered the page loop, is not aborted by that image:
\* the page is processed to its end, and its text and its other images are
\* in the document.
C7_BadImageAbsorbed ==
    \A w \in Workers :
        LET t == th[w] IN
        t.pc = "ret" /\ t.c.include_images /\ t.c.pg >= 1
          /\ Len(Content(t).pages) = 1 /\ Cardinality(BadImages(Content(t).pages[1])) = 1
            => LET page == Content(t).pages[1] IN
               /\ t.c.pg > 1
               /\ Strip(page.text) # <<>> =>
                     [type |-> "paragraph", text |-> Strip(page.text)] \in Range(t.c.doc)
               /\ \A x \in OkImages(page) :
                     [type |-> "image", xref |-> x] \in Range(t.c.doc)

\* C8: a call of convert_pdf_to_docx that opened the source document has
\* closed it exactly once when it returns or raises.
C8_SourceClosedOnce ==
    \A w \in Workers :
        th[w].pc = "ret" /\ th[w].c.pdf # "none"
            => th[w].c.pdf = "closed" /\ th[w].c.closes = 1

\* the Tk variables did not change between the click and the loop's start
StartedAsClicked(t) == t.startDst = t.clickDst /\ t.startImgs = t.clickImgs

\* C9: after a batch, the destination folder it was started with exists
\* and holds an output file for each file the batch converted.
C9_DestinationCreated ==
    \A w \in Workers :
        LET t == th[w] IN
        t.pc = "done" /\ t.pdf_paths # <<>> /\ StartedAsClicked(t) =>
            /\ t.startDst \in folders
            /\ \A i \in 1..Len(t.calls) :
                 t.calls[i].exc = "none" => outFiles[<<t.startDst, t.calls[i].name.stem>>] # "absent"

\* C10: every file of a batch is converted with the destination folder and
\* the include-images setting the batch was started with.
C10_BatchUsesStartSettings ==
    \A w \in Workers :
        LET t == th[w] IN
        InCall(t) /\ StartedAsClicked(t) =>
            t.c.docx_path.dir = t.startDst /\ t.c.include_images = t.startImgs

====
